---- MODULE Spec2Model ----
(***************************************************************************)
(* Model of the PDF vectorizer (src/02-vectorizacion/pdf_vectorizer.py)    *)
(* and of the document search server (src/03-mcp-server/mcp-server.py).    *)
(*                                                                         *)
(* Texts are sequences of one-character strings.  The chunker is modelled  *)
(* twice from the same loop body (ChunkIter): as a step machine, one       *)
(* action per loop iteration (SpecChunk), and as the operator ChunkText    *)
(* that process_pdf calls (Spec).                                          *)
(***************************************************************************)
EXTENDS Integers, Sequences, FiniteSets, TLC

\* ------------------------------------------------------------------ bounds
MaxLen == 5
MaxSize == 3
MaxIters == 8
MaxChunks == 3     \* chunks passed to a direct store_chunks call
MaxVecs == 3       \* vectors passed to a direct store_chunks call
MaxApiCalls == 1   \* direct store_chunks calls
MaxTopK == 2       \* top_k values tried besides the default
PageSize == 1      \* rows per INSERT statement of execute_values

\* ------------------------------------------------------- program constants
DefaultChunkSize == 500
DefaultChunkOverlap == 50
DefaultTopK == 5
DefaultThreshold == 30   \* 0.3, in hundredths
Scale == 100             \* similarities and thresholds are in hundredths

\* ----------------------------------------------------------- Python strings
Min(a, b) == IF a < b THEN a ELSE b
Max(a, b) == IF a > b THEN a ELSE b

\* The characters str.strip() removes, among those of the model's alphabet.
Whitespace == {" ", "\n"}
Alphabet == {"a", " ", "\n"}

\* A slice bound as Python normalises it: negative counts from the end,
\* then clipped to 0..n.
PyIdx(i, n) == IF i < 0 THEN Max(i + n, 0) ELSE Min(i, n)

\* s[a:b]
Slice(s, a, b) ==
  LET lo == PyIdx(a, Len(s))
      hi == PyIdx(b, Len(s))
  IN IF lo >= hi THEN << >> ELSE SubSeq(s, lo + 1, hi)

\* s.rfind(' '): the 0-based index of the last space, -1 when there is none.
RFindSpace(s) ==
  LET hits == {i \in 1..Len(s) : s[i] = " "}
  IN IF hits = {} THEN -1 ELSE (CHOOSE i \in hits : \A j \in hits : j <= i) - 1

\* s.strip()
Strip(s) ==
  LET keep == {i \in 1..Len(s) : s[i] \notin Whitespace}
  IN IF keep = {} THEN << >>
     ELSE SubSeq(s, CHOOSE i \in keep : \A j \in keep : i <= j,
                    CHOOSE i \in keep : \A j \in keep : j <= i)

\* [c for c in chunks if c]
NonEmpty(cs) == SelectSeq(cs, LAMBDA c : c # << >>)

\* ------------------------------------------------------------- chunk_text
\* A faulty variant: cut at any space found, however close to the window's start
CutAtAnySpace(last_space, overlap) == last_space >= 0

\* The condition under which the window is cut at its last space.
CutAtSpace(last_space, overlap) == last_space > overlap

\* A faulty variant: the end of the size-based window, whether or not it was cut
UncutWindowEnd(st, size, last_space, cut) == st + size

\* The window end the cursor advances from: `end = start + last_space` when
\* the window was cut, `end = start + self.chunk_size` otherwise.
WindowEnd(st, size, last_space, cut) ==
  IF cut THEN st + last_space ELSE st + size

\* One iteration of the while loop of chunk_text, from cursor `start`:
\* the chunk appended (stripped), the window end used, and the next cursor.
ChunkIter(txt, size, overlap, st) ==
  LET end0 == st + size
      chunk0 == Slice(txt, st, end0)
      last_space == IF end0 < Len(txt) THEN RFindSpace(chunk0) ELSE -1
      cut == end0 < Len(txt) /\ CutAtSpace(last_space, overlap)
      chunk == IF cut THEN Slice(chunk0, 0, last_space) ELSE chunk0
      end == WindowEnd(st, size, last_space, cut)
  IN [chunk |-> Strip(chunk), cut |-> cut, end |-> end, next |-> end - overlap]

RECURSIVE ChunkLoop(_, _, _, _, _)
ChunkLoop(txt, size, overlap, st, acc) ==
  IF st < Len(txt)
  THEN LET it == ChunkIter(txt, size, overlap, st)
       IN ChunkLoop(txt, size, overlap, it.next, Append(acc, it.chunk))
  ELSE NonEmpty(acc)

\* chunk_text(text) under the configuration (size, overlap)
ChunkText(txt, size, overlap) == ChunkLoop(txt, size, overlap, 0, << >>)

\* ------------------------------------------------------------------ state
VARIABLES
  chunk_size,     \* self.chunk_size
  chunk_overlap,  \* self.chunk_overlap
  text,           \* chunk_text's argument
  start,          \* chunk_text's cursor
  chunks,         \* chunk_text's list, before the final filter
  cpc,            \* chunk_text's position: "loop" | "done"
  result,         \* chunk_text's return value
  starts,         \* history: the cursor at the head of each iteration done
  db,             \* document_chunks: the committed rows, what any session reads
  pending,        \* per writer: the rows of its open transaction
  pc,             \* per writer: where it is
  args,           \* per writer: the arguments of its store_chunks call
  values,         \* per writer: the `values` list of its store_chunks call
  sent,           \* per writer: how many of `values` execute_values has sent
  file_index,     \* process_directory: index of the current file in pdf_files
  skipped,        \* process_directory: the files reported as not extracted
  extracted,      \* history: what extract_text_from_pdf returned, per file
  calls,          \* history: per writer, the store_chunks calls it made
  apiCalls,       \* direct store_chunks calls made
  reply           \* the server: the result of the tool call being answered

chunkVars == <<chunk_size, chunk_overlap, text, start, chunks, cpc, result, starts>>
storeVars == <<db, pending, pc, args, values, sent, file_index, skipped, extracted,
               calls, apiCalls>>
vars == <<chunkVars, storeVars, reply>>

\* A text a little shorter than the default chunk size.
LongText == [k \in 1..(DefaultChunkSize - 20) |-> IF k % 7 = 0 THEN " " ELSE "a"]

\* --------------------------------------------------- text extraction
\* The character Postgres rejects; one symbol of the model's page alphabet.
NUL == "NUL"

\* text.replace('\x00', '')
RemoveNul(s) == SelectSeq(s, LAMBDA c : c # NUL)

RECURSIVE JoinPages(_)
JoinPages(pages) ==
  IF pages = << >> THEN << >>
  ELSE pages[1] \o <<"\n">> \o JoinPages(Tail(pages))

\* extract_text_from_pdf: "" when PdfReader or a page raises, else the pages'
\* texts, each followed by "\n", without NUL characters.
ExtractTextFromPdf(raises, pages) ==
  IF raises THEN << >> ELSE RemoveNul(JoinPages(pages))

ShortPage == <<"a", NUL, " ", "b">>
BlankPage == << >>
\* What PdfReader can find in a file: no page, a page without text, a page
\* with text.
PdfContents == {<< >>, <<BlankPage>>, <<ShortPage>>}

\* The files process_directory finds, in the order glob yields them.
pdf_files == <<"b.pdf", "a.pdf", "c.pdf">>

\* The document a direct store_chunks call names.
ApiDocument == "a.pdf"

\* Document names in ascending order (ORDER BY document_name).
DocNames == <<"a.pdf", "b.pdf", "c.pdf">>

\* -------------------------------------------------------------- embeddings
Vecs == {<<1, 0>>, <<3, 4>>}
Queries == {<<0, 1>>, <<4, 3>>}

\* model.encode(texts): one vector per text.  The model is external; any
\* fixed function of the text stands for it.
Encode(chunk) ==
  IF \E k \in 1..Len(chunk) : chunk[k] = " " THEN <<3, 4>> ELSE <<0, 1>>

\* generate_embeddings(texts)
GenerateEmbeddings(texts) == [k \in 1..Len(texts) |-> Encode(texts[k])]

Dot(a, b) == a[1] * b[1] + a[2] * b[2]
Norm(a) == CHOOSE n \in 0..10 : n * n = Dot(a, a)

\* Cosine similarity in hundredths (exact for the vectors of the model).
CosSim(a, b) == (Scale * Dot(a, b)) \div (Norm(a) * Norm(b))

\* pgvector's `a <=> b`
CosineDistance(a, b) == Scale - CosSim(a, b)

\* the column `1 - (embedding <=> %s::vector) as similarity`
Similarity(row, q) == Scale - CosineDistance(row.embedding, q)

\* ------------------------------------------------------------ store_chunks
Writers == {"dir", "api"}

\* The `values` list: one tuple per pair of zip(chunks, embeddings), which
\* stops at the shorter of the two.
Values(document_name, cs, embeddings) ==
  [k \in 1..Min(Len(cs), Len(embeddings)) |->
     [document_name |-> document_name, chunk_text |-> cs[k],
      chunk_index |-> k - 1, embedding |-> embeddings[k]]]

\* A row of document_chunks: a tuple of `values`, and the call that wrote it
\* (history; it stands for the row's identity).
Row(v, call) ==
  [call |-> call, document_name |-> v.document_name, chunk_text |-> v.chunk_text,
   chunk_index |-> v.chunk_index, embedding |-> v.embedding]

\* A faulty variant: autocommit: an executed INSERT is visible at once
InsertAutocommit(table, txn, rows) == [db |-> table \cup rows, pending |-> txn]

\* The effect of one INSERT statement of execute_values on a connection that
\* is not in autocommit mode: the rows join the open transaction.
Insert(table, txn, rows) == [db |-> table, pending |-> txn \cup rows]

\* conn.commit(): the rows of the transaction become visible together.
Commit(table, txn) == table \cup txn

\* ---------------------------------------------------------- list_documents
\* A faulty variant: no GROUP BY: one entry per row
ListDocumentsUngrouped(table) ==
  LET RECURSIVE Rows(_)
      Rows(rs) == IF rs = {} THEN << >>
                  ELSE LET r == CHOOSE x \in rs : TRUE
                       IN <<[document |-> r.document_name, chunks |-> 1]>>
                            \o Rows(rs \ {r})
  IN Rows(table)

\* SELECT document_name, COUNT(*) ... GROUP BY document_name
\* ORDER BY document_name
ListDocuments(table) ==
  LET present == SelectSeq(DocNames,
                   LAMBDA d : \E r \in table : r.document_name = d)
  IN [k \in 1..Len(present) |->
        [document |-> present[k],
         chunks |-> Cardinality({r \in table : r.document_name = present[k]})]]

\* -------------------------------------------------------- search_documents
\* WHERE 1 - (embedding <=> q) > threshold
AboveThreshold(row, q, threshold) == Similarity(row, q) > threshold

\* A faulty variant: ORDER BY similarity, ascending
OrderedBeforeAscending(r1, r2, q) == Similarity(r1, q) <= Similarity(r2, q)

\* ORDER BY embedding <=> q: r1 may come before r2
OrderedBefore(r1, r2, q) ==
  CosineDistance(r1.embedding, q) <= CosineDistance(r2.embedding, q)

\* LIMIT top_k
Limit(top_k) == top_k

\* Rows the query's three columns and the ordering cannot tell apart.
SameColumns(r1, r2) ==
  /\ r1.document_name = r2.document_name
  /\ r1.chunk_text = r2.chunk_text
  /\ r1.embedding = r2.embedding

\* The orders in which the query may return `rows`, at most n of them; rows
\* at the same distance come in any order (of rows with the same columns,
\* which give the same result whichever comes first, one is taken).
RECURSIVE Ordered(_, _, _)
Ordered(rows, q, n) ==
  IF n = 0 \/ rows = {} THEN {<< >>}
  ELSE LET firsts == {r \in rows : \A o \in rows : OrderedBefore(r, o, q)}
           reps == {r \in firsts : r = CHOOSE x \in firsts : SameColumns(x, r)}
       IN UNION {{<<r>> \o rest : rest \in Ordered(rows \ {r}, q, n - 1)} :
                 r \in reps}

\* cursor.fetchall() of the search query: every result it may give
SearchRows(table, q, top_k, threshold) ==
  Ordered({r \in table : AboveThreshold(r, q, threshold)}, q, Limit(top_k))

\* formatted_results
Format(rows, q) ==
  [k \in 1..Len(rows) |->
     [document |-> rows[k].document_name, text |-> rows[k].chunk_text,
      similarity |-> Similarity(rows[k], q)]]

TopKs == (1..MaxTopK) \cup {DefaultTopK}
Thresholds == {DefaultThreshold, 0, 80, 99}

\* ------------------------------------------------------------ initial state
NoArgs == [call |-> 0, document_name |-> "", chunks |-> << >>, embeddings |-> << >>]
NoReply == [op |-> "none"]

\* No writer has started, the table is empty, the server is idle.
StoreIdle ==
  /\ db = {}
  /\ pending = [w \in Writers |-> {}]
  /\ pc = [w \in Writers |-> IF w = "dir" THEN "loop" ELSE "idle"]
  /\ args = [w \in Writers |-> NoArgs]
  /\ values = [w \in Writers |-> << >>]
  /\ sent = [w \in Writers |-> 0]
  /\ file_index = 1
  /\ skipped = << >>
  /\ extracted = << >>
  /\ calls = [w \in Writers |-> << >>]
  /\ apiCalls = 0
  /\ reply = NoReply

\* ------------------------------------------------- chunker as a step machine
RECURSIVE TextsOfLen(_)
TextsOfLen(n) ==
  IF n = 0 THEN {<< >>}
  ELSE {Append(t, c) : t \in TextsOfLen(n - 1), c \in Alphabet}

SmallTexts == UNION {TextsOfLen(n) : n \in 0..MaxLen}

\* "aaaa bbbb cccc"
Example1 == <<"a","a","a","a"," ","b","b","b","b"," ","c","c","c","c">>

ValidConfig == 0 <= chunk_overlap /\ chunk_overlap < chunk_size

InitChunk ==
  /\ \/ /\ text \in SmallTexts
        /\ chunk_size \in 1..MaxSize
        /\ chunk_overlap \in 0..MaxSize
     \/ /\ text = Example1
        /\ chunk_size = 9
        /\ chunk_overlap = 2
     \/ /\ text = LongText
        /\ chunk_size = DefaultChunkSize
        /\ chunk_overlap = DefaultChunkOverlap
  /\ start = 0
  /\ chunks = << >>
  /\ cpc = "loop"
  /\ result = << >>
  /\ starts = << >>
  /\ StoreIdle

\* One pass through the body of `while start < text_length`.
ChunkStep ==
  /\ cpc = "loop"
  /\ start < Len(text)
  /\ Len(starts) < MaxIters
  /\ LET it == ChunkIter(text, chunk_size, chunk_overlap, start)
     IN /\ chunks' = Append(chunks, it.chunk)
        /\ start' = it.next
  /\ starts' = Append(starts, start)
  /\ UNCHANGED <<chunk_size, chunk_overlap, text, cpc, result, storeVars, reply>>

\* The loop condition fails: filter the empty chunks and return.
ChunkReturn ==
  /\ cpc = "loop"
  /\ start >= Len(text)
  /\ result' = NonEmpty(chunks)
  /\ cpc' = "done"
  /\ UNCHANGED <<chunk_size, chunk_overlap, text, start, chunks, starts, storeVars, reply>>

NextChunk == ChunkStep \/ ChunkReturn

\* chunk_text is a plain sequential loop: it keeps running while it can.
SpecChunk == InitChunk /\ [][NextChunk]_vars /\ WF_vars(NextChunk)

\* A loop iteration happens in this step.
Iterates == Len(starts') > Len(starts)

\* Some finished iteration cut its window at a space.
SomeCut ==
  \E i \in 1..Len(starts) :
    ChunkIter(text, chunk_size, chunk_overlap, starts[i]).cut

\* C6: under 0 <= chunk_overlap < chunk_size the cursor strictly increases
\* on every loop iteration, cut windows included, so the loop runs at most
\* len(text) times; it is never stuck before it returns, and it returns as
\* soon as start >= len(text).
C6_ChunkTextTerminates ==
  /\ [][(ValidConfig /\ Iterates) => start' > start]_vars
  /\ [](ValidConfig =>
         /\ Len(starts) <= Len(text)
         /\ cpc = "done" \/ ENABLED NextChunk
         /\ (cpc = "loop" /\ start >= Len(text)) => ~ENABLED ChunkStep)

C6_Witness == ValidConfig /\ cpc = "done" /\ SomeCut /\ Len(starts) >= 3

\* C7 (as claimed): a text shorter than chunk_size gives exactly one chunk,
\* the whole text trimmed, or no chunk when the trimmed text is empty.
C7_ShortTextOneChunk ==
  (cpc = "done" /\ ValidConfig /\ Len(text) < chunk_size)
    => result = (IF Strip(text) # << >> THEN <<Strip(text)>> ELSE << >>)

\* C8 (as claimed): under chunk_overlap >= chunk_size the call is rejected
\* or the configuration clamped, so no loop iteration runs without moving
\* the cursor forward.
C8_InvalidConfigNeverStalls ==
  [][(chunk_overlap >= chunk_size /\ Iterates) => start' > start]_vars

\* C10 (as claimed): every iteration advances the cursor to
\* (start + chunk_size) - chunk_overlap, measured from the uncut window end.
C10_AdvanceFromUncutEnd ==
  [][(ValidConfig /\ Iterates) => start' = (start + chunk_size) - chunk_overlap]_vars

\* C10 (amended): the cursor advances to end - chunk_overlap, where end is
\* start + last_space when the window was cut at a space and
\* start + chunk_size otherwise; so it grows by chunk_size - chunk_overlap in
\* an uncut iteration and by at least 1 in a cut one.  For "aaaa bbbb cccc"
\* with size 9 and overlap 2 the second window starts at 2.
C10_AdvanceFromWindowEnd ==
  [][(ValidConfig /\ Iterates) =>
       LET last_space == RFindSpace(Slice(text, start, start + chunk_size))
           cut == start + chunk_size < Len(text) /\ last_space > chunk_overlap
       IN /\ cut => start' = (start + last_space) - chunk_overlap
          /\ ~cut => start' = (start + chunk_size) - chunk_overlap
          /\ start' >= start + 1
          /\ (text = Example1 /\ start = 0) => start' = 2]_vars

C10_Witness ==
  /\ text = Example1 /\ chunk_size = 9 /\ chunk_overlap = 2
  /\ Len(starts) >= 2 /\ starts[2] = 2 /\ SomeCut


\* --------------------------------------------------- the ingestion pipeline
\* store_chunks is entered by writer w with these arguments.
EnterStoreChunks(w, document_name, cs, embeddings) ==
  /\ calls' = [calls EXCEPT ![w] =
                 Append(@, [document_name |-> document_name,
                            nchunks |-> Len(cs), nvecs |-> Len(embeddings),
                            rows |-> 0, status |-> "running"])]
  /\ args' = [args EXCEPT ![w] = [call |-> Len(calls[w]) + 1,
                                  document_name |-> document_name,
                                  chunks |-> cs, embeddings |-> embeddings]]
  /\ pc' = [pc EXCEPT ![w] = "connect"]

\* An exception leaves store_chunks: the connection is dropped with its
\* transaction open, which rolls it back.  Nothing in process_pdf or
\* process_directory catches it; a direct caller gets it.
RaiseFromStoreChunks(w) ==
  /\ pending' = [pending EXCEPT ![w] = {}]
  /\ calls' = [calls EXCEPT ![w][args[w].call].status = "raised"]
  /\ pc' = [pc EXCEPT ![w] = IF w = "dir" THEN "raised" ELSE "idle"]
  /\ args' = [args EXCEPT ![w] = NoArgs]
  /\ values' = [values EXCEPT ![w] = << >>]
  /\ sent' = [sent EXCEPT ![w] = 0]

\* What a tool call returns is fixed when its SELECT runs, and the server
\* keeps nothing afterwards: the steps of the writers are interleaved with
\* whole tool calls, the SELECT and the answer together.
ServerIdle == reply = NoReply

\* A faulty variant: a text of whitespace alone counts as no text
NoTextAfterStrip(txt) == Strip(txt) = << >>

\* `if not text`
NoText(txt) == txt = << >>

\* One pass of `for pdf_file in pdf_files: self.process_pdf(...)`, up to the
\* call of store_chunks.
ProcessPdf ==
  /\ ServerIdle
  /\ pc["dir"] = "loop"
  /\ file_index <= Len(pdf_files)
  /\ \E raises \in BOOLEAN, pages \in PdfContents :
       LET document_name == pdf_files[file_index]
           txt == ExtractTextFromPdf(raises, pages)
           cs == ChunkText(txt, chunk_size, chunk_overlap)
       IN /\ extracted' = Append(extracted, txt)
          /\ IF NoText(txt)
               THEN \* "No se pudo extraer texto": return; the loop goes on
                    /\ skipped' = Append(skipped, document_name)
                    /\ file_index' = file_index + 1
                    /\ UNCHANGED <<pc, args, calls>>
               ELSE \/ \* generate_embeddings raises
                       /\ pc' = [pc EXCEPT !["dir"] = "raised"]
                       /\ UNCHANGED <<args, calls, skipped, file_index>>
                    \/ /\ EnterStoreChunks("dir", document_name, cs,
                                           GenerateEmbeddings(cs))
                       /\ UNCHANGED <<skipped, file_index>>
  /\ UNCHANGED <<chunkVars, db, pending, values, sent, apiCalls, reply>>

\* The for loop is exhausted: "Procesamiento completado".
LoopEnd ==
  /\ ServerIdle
  /\ pc["dir"] = "loop"
  /\ file_index > Len(pdf_files)
  /\ pc' = [pc EXCEPT !["dir"] = "finished"]
  /\ UNCHANGED <<chunkVars, db, pending, args, values, sent, file_index, skipped,
                 extracted, calls, apiCalls, reply>>

\* The embeddings a direct caller passes: any vectors, or the first m of a
\* fixed list.
ApiEmbeddings == UNION {[1..m -> Vecs] : m \in 0..MaxVecs}
ApiVectors(m) == [k \in 1..m |-> IF k % 2 = 1 THEN <<1, 0>> ELSE <<3, 4>>]

\* A caller of the class calls store_chunks itself, with n chunks and the
\* given embeddings.
ApiStoreChunks(n, embeddings) ==
  /\ ServerIdle
  /\ pc["api"] = "idle"
  /\ apiCalls < MaxApiCalls
  /\ EnterStoreChunks("api", ApiDocument, [k \in 1..n |-> <<"x">>], embeddings)
  /\ apiCalls' = apiCalls + 1
  /\ UNCHANGED <<chunkVars, db, pending, values, sent, file_index, skipped,
                 extracted, reply>>

\* conn = self.connect_db(); cursor; values = [...]
StoreConnect(w) ==
  /\ ServerIdle
  /\ pc[w] = "connect"
  /\ \/ LET vs == Values(args[w].document_name, args[w].chunks, args[w].embeddings)
        IN /\ values' = [values EXCEPT ![w] = vs]
           /\ sent' = [sent EXCEPT ![w] = 0]
           /\ calls' = [calls EXCEPT ![w][args[w].call].rows = Len(vs)]
           /\ pc' = [pc EXCEPT ![w] = IF vs = << >> THEN "commit" ELSE "insert"]
           /\ UNCHANGED <<pending, args>>
     \/ RaiseFromStoreChunks(w)
  /\ UNCHANGED <<chunkVars, db, file_index, skipped, extracted, apiCalls, reply>>

\* execute_values: the next page of `values`, one INSERT statement.
StoreInsert(w) ==
  /\ ServerIdle
  /\ pc[w] = "insert"
  /\ \/ LET upto == Min(sent[w] + PageSize, Len(values[w]))
            rows == {Row(values[w][k], <<w, args[w].call>>) : k \in (sent[w] + 1)..upto}
            after == Insert(db, pending[w], rows)
        IN /\ db' = after.db
           /\ pending' = [pending EXCEPT ![w] = after.pending]
           /\ sent' = [sent EXCEPT ![w] = upto]
           /\ pc' = [pc EXCEPT ![w] = IF upto = Len(values[w]) THEN "commit" ELSE "insert"]
           /\ UNCHANGED <<args, values, calls>>
     \/ /\ RaiseFromStoreChunks(w)
        /\ UNCHANGED db
  /\ UNCHANGED <<chunkVars, file_index, skipped, extracted, apiCalls, reply>>

\* conn.commit(), then the print and the two close() calls; store_chunks
\* returns, and process_pdf with it.
StoreCommit(w) ==
  /\ ServerIdle
  /\ pc[w] = "commit"
  /\ \/ /\ db' = Commit(db, pending[w])
        /\ pending' = [pending EXCEPT ![w] = {}]
        /\ calls' = [calls EXCEPT ![w][args[w].call].status = "returned"]
        /\ pc' = [pc EXCEPT ![w] = IF w = "dir" THEN "loop" ELSE "idle"]
        /\ file_index' = IF w = "dir" THEN file_index + 1 ELSE file_index
        /\ args' = [args EXCEPT ![w] = NoArgs]
        /\ values' = [values EXCEPT ![w] = << >>]
        /\ sent' = [sent EXCEPT ![w] = 0]
     \/ /\ RaiseFromStoreChunks(w)
        /\ UNCHANGED <<db, file_index>>
  /\ UNCHANGED <<chunkVars, skipped, extracted, apiCalls, reply>>

\* ------------------------------------------------------------- the server
\* call_tool("list_documents"): one SELECT over the committed rows.
ListCall ==
  /\ reply = NoReply
  /\ \/ reply' = [op |-> "list", rows |-> ListDocuments(db)]
     \/ reply' = [op |-> "error"]
  /\ UNCHANGED <<chunkVars, storeVars>>

\* call_tool("search_documents", query, top_k, threshold): one SELECT over
\* the committed rows; q is the query's embedding.
SearchCall ==
  /\ reply = NoReply
  /\ \E q \in Queries, top_k \in TopKs, threshold \in Thresholds :
       \/ \E rows \in SearchRows(db, q, top_k, threshold) :
            reply' = [op |-> "search", query |-> q, top_k |-> top_k,
                      threshold |-> threshold, rows |-> Format(rows, q)]
       \/ reply' = [op |-> "error"]
  /\ UNCHANGED <<chunkVars, storeVars>>

\* The TextContent is returned; the server keeps nothing between calls.
Respond ==
  /\ reply # NoReply
  /\ reply' = NoReply
  /\ UNCHANGED <<chunkVars, storeVars>>

Init ==
  /\ chunk_size = DefaultChunkSize
  /\ chunk_overlap = DefaultChunkOverlap
  /\ text = << >>
  /\ start = 0
  /\ chunks = << >>
  /\ cpc = "idle"
  /\ result = << >>
  /\ starts = << >>
  /\ StoreIdle

Next ==
  \/ ProcessPdf
  \/ LoopEnd
  \/ \E n \in 0..MaxChunks, m \in 0..MaxVecs : ApiStoreChunks(n, ApiVectors(m))
  \/ \E w \in Writers : StoreConnect(w)
  \/ \E w \in Writers : StoreInsert(w)
  \/ \E w \in Writers : StoreCommit(w)
  \/ ListCall
  \/ Respond

\* The ingestion pipeline, a direct caller of store_chunks, and the server's
\* list_documents.
Spec == Init /\ [][Next]_vars

NextSearch ==
  \/ \E embeddings \in ApiEmbeddings : ApiStoreChunks(Len(embeddings), embeddings)
  \/ \E w \in Writers : StoreConnect(w)
  \/ \E w \in Writers : StoreInsert(w)
  \/ \E w \in Writers : StoreCommit(w)
  \/ SearchCall
  \/ Respond

\* search_documents over the tables that store_chunks calls leave.
SpecSearch == Init /\ [][NextSearch]_vars

\* ------------------------------------------------------------------ claims
\* The store_chunks calls made so far: <<writer, number>>.
AllCalls == UNION {{<<w, k>> : k \in 1..Len(calls[w])} : w \in Writers}
CallOf(id) == calls[id[1]][id[2]]

\* The rows of call `id` that other sessions can read.
VisibleOf(id) == {r \in db : r.call = id}

\* The chunk count a list_documents result gives for d, 0 when d is absent.
CountIn(listing, d) ==
  IF \E k \in 1..Len(listing) : listing[k].document = d
  THEN (CHOOSE e \in {listing[k] : k \in 1..Len(listing)} : e.document = d).chunks
  ELSE 0

RECURSIVE SumRows(_)
SumRows(ids) ==
  IF ids = {} THEN 0
  ELSE LET id == CHOOSE x \in ids : TRUE
       IN CallOf(id).rows + SumRows(ids \ {id})

\* The calls for document d that have returned.
ReturnedFor(d) ==
  {id \in AllCalls : CallOf(id).document_name = d /\ CallOf(id).status = "returned"}

NameIndex(d) == CHOOSE k \in 1..Len(DocNames) : DocNames[k] = d

\* C1 (as claimed): a store_chunks call with len(chunks) # len(embeddings)
\* inserts no Record: document_chunks holds no row of it.
C1_MismatchStoresNothing ==
  \A id \in AllCalls :
    CallOf(id).nchunks # CallOf(id).nvecs => VisibleOf(id) = {}

\* C2: a file whose extraction gives no text (the reader raised, or there is
\* no page) is reported and skipped: the step stores nothing, starts no
\* store_chunks call and leaves the loop at the next file; every file handled
\* so far is either skipped, exactly when its text was empty, or stored with
\* all its chunks; when the loop ends every file is one or the other.
C2_ExtractionFailureSkipsOneDocument ==
  /\ [][Len(extracted') > Len(extracted) /\ extracted'[Len(extracted')] = << >>
          => /\ skipped' = Append(skipped, pdf_files[file_index])
             /\ file_index' = file_index + 1
             /\ pc'["dir"] = "loop"
             /\ db' = db /\ pending' = pending /\ calls' = calls]_vars
  /\ [](/\ \A k \in 1..Len(extracted) :
             (extracted[k] = << >>) <=>
               (\E n \in 1..Len(skipped) : skipped[n] = pdf_files[k])
        /\ \A k \in 1..Len(extracted) :
             (extracted[k] # << >> /\ k < file_index) =>
               \E n \in 1..Len(calls["dir"]) :
                 /\ calls["dir"][n].document_name = pdf_files[k]
                 /\ calls["dir"][n].status = "returned"
                 /\ calls["dir"][n].rows =
                      Len(ChunkText(extracted[k], chunk_size, chunk_overlap))
                 /\ Cardinality(VisibleOf(<<"dir", n>>)) = calls["dir"][n].rows
        /\ \A n \in 1..Len(skipped) :
             /\ \A m \in 1..Len(calls["dir"]) :
                  calls["dir"][m].document_name # skipped[n]
             /\ \A r \in db : r.call[1] = "dir" => r.document_name # skipped[n]
        /\ pc["dir"] = "finished" =>
             /\ Len(extracted) = Len(pdf_files)
             /\ file_index = Len(pdf_files) + 1
             /\ Len(skipped) + Len(calls["dir"]) = Len(pdf_files))

\* Example 4: three files, the second without text, the other two stored.
C2_Witness ==
  /\ pc["dir"] = "finished"
  /\ skipped = <<pdf_files[2]>>
  /\ Len(calls["dir"]) = 2
  /\ \A n \in 1..2 : VisibleOf(<<"dir", n>>) # {}

\* C3 (as claimed): a failure of the embedding call or of the store operation
\* never aborts the batch.
C3_FailureNeverAbortsBatch == pc["dir"] # "raised"

\* C4: of the rows of one store_chunks call other sessions can read none or
\* all, and none unless the call has returned; and what list_documents
\* counts for a document is the rows of whole returned calls, never part of
\* a call.
C4_StoreChunksAtomic ==
  /\ \A id \in AllCalls :
       /\ VisibleOf(id) = {} \/
            /\ CallOf(id).status = "returned"
            /\ {r.chunk_index : r \in VisibleOf(id)} = 0..(CallOf(id).rows - 1)
            /\ Cardinality(VisibleOf(id)) = CallOf(id).rows
       /\ CallOf(id).status = "raised" => VisibleOf(id) = {}
  /\ reply.op = "list" =>
       \A k \in 1..Len(DocNames) :
         CountIn(reply.rows, DocNames[k]) = SumRows(ReturnedFor(DocNames[k]))

\* list_documents answers while a call is half-way through its inserts and
\* another call's rows are in the table.
C4_Witness ==
  /\ reply.op = "list"
  /\ reply.rows # << >>
  /\ \E w \in Writers :
       pc[w] = "insert" /\ sent[w] >= 1 /\ sent[w] < Len(values[w])

\* C9 (as claimed): after store_chunks(d, N chunks, N vectors) has returned,
\* list_documents reports chunk_count = N for d, whatever was stored before.
C9_CountEqualsN ==
  (/\ reply.op = "list"
   /\ \A id \in AllCalls : CallOf(id).nchunks = CallOf(id).nvecs)
    => \A id \in AllCalls :
         CallOf(id).status = "returned"
           => CountIn(reply.rows, CallOf(id).document_name) = CallOf(id).nchunks

\* C9 (amended): when store_chunks(d, N chunks, N vectors) returns, the
\* chunk_count list_documents reports for d is N more than it was just
\* before, so it is N only when d had no row; list_documents lists each
\* document of the table once, with the number of its rows, in ascending
\* order of document name.
C9_CountGrowsByN ==
  /\ [][\A id \in AllCalls :
          (/\ CallOf(id).status = "running"
           /\ calls'[id[1]][id[2]].status = "returned"
           /\ CallOf(id).nchunks = CallOf(id).nvecs)
            => CountIn(ListDocuments(db'), CallOf(id).document_name) =
                 CountIn(ListDocuments(db), CallOf(id).document_name)
                   + CallOf(id).nchunks]_vars
  /\ [](reply.op = "list" =>
         /\ \A k, n \in 1..Len(reply.rows) :
              k < n => NameIndex(reply.rows[k].document) < NameIndex(reply.rows[n].document)
         /\ \A k \in 1..Len(DocNames) :
              CountIn(reply.rows, DocNames[k]) =
                Cardinality({r \in db : r.document_name = DocNames[k]})
         /\ \A k \in 1..Len(reply.rows) : reply.rows[k].chunks > 0)

\* a.pdf stored twice, by the pipeline and by a direct call, then listed
\* with another document.
C9_Witness ==
  /\ reply.op = "list"
  /\ Len(reply.rows) >= 2
  /\ Cardinality(ReturnedFor(ApiDocument)) = 2
  /\ \A id \in ReturnedFor(ApiDocument) :
       CallOf(id).nchunks = CallOf(id).nvecs /\ CallOf(id).nchunks > 0
  /\ CountIn(reply.rows, ApiDocument) = SumRows(ReturnedFor(ApiDocument))

\* C5: a search_documents result has at most top_k entries, each a row of the
\* table with similarity (1 - cosine distance to the query vector) strictly
\* above the threshold, in order of non-increasing similarity, and they are
\* the top_k most similar rows above the threshold (all of them when there
\* are fewer); with no row above the threshold the result is empty.
C5_SearchRanksAboveThreshold ==
  reply.op = "search" =>
    LET q == reply.query
        res == reply.rows
        Sim(r) == Scale - CosineDistance(r.embedding, q)
        cand == {r \in db : Sim(r) > reply.threshold}
    IN /\ Len(res) <= reply.top_k
       /\ Len(res) = Min(reply.top_k, Cardinality(cand))
       /\ \A k \in 1..Len(res) :
            /\ res[k].similarity > reply.threshold
            /\ \E r \in cand : /\ r.document_name = res[k].document
                               /\ r.chunk_text = res[k].text
                               /\ Sim(r) = res[k].similarity
            /\ Cardinality({r \in cand : Sim(r) > res[k].similarity}) < k
       /\ \A k \in 1..(Len(res) - 1) : res[k].similarity >= res[k + 1].similarity
       /\ cand = {} => res = << >>

\* More rows above the threshold than top_k, of different similarities.
C5_Witness ==
  /\ reply.op = "search"
  /\ Len(reply.rows) = reply.top_k
  /\ reply.top_k >= 2
  /\ Cardinality({r \in db : Similarity(r, reply.query) > reply.threshold}) > reply.top_k
  /\ reply.rows[1].similarity > reply.rows[2].similarity

====
